---- MODULE Spec2Model ----
(***************************************************************************)
(* Model of the digidrobe outfit engine (backend/services/outfit_engine.py *)
(* and the outfit / wardrobe routes of backend/app.py).                    *)
(*                                                                         *)
(* The specifications share the variables:                                 *)
(*   Spec       the store (wardrobe and outfit tables), the clock and the  *)
(*              request handlers;                                          *)
(*   SpecScore  the Matching Selector applied to one candidate, inputs     *)
(*              drawn from the full colour and style tables;               *)
(*   SpecSel    the Matching Selector applied to candidate lists;          *)
(*   SpecConc   getTodaysOutfit requests in flight together, the lookup    *)
(*              and the generation of a request being separate steps;      *)
(*   SpecItem   the Item Selector applied to candidate lists;              *)
(*   SpecSec    the Matching Selector called with secondary references;    *)
(*   SpecStyle  the overall-style rule applied to chosen items.            *)
(* Random choices of the code (random.choice, random.random) are           *)
(* nondeterministic choices of the model.                                  *)
(***************************************************************************)
EXTENDS Integers, Sequences, FiniteSets

VARIABLES
    wardrobe,    \* clothing_item table: set of item records (rows)
    outfits,     \* outfit table: sequence of outfit records in rowid order
    day,         \* current UTC calendar day of the clock
    last,        \* the last outfit request served on the current day and the
                 \* response it returned
    pc,          \* where each getTodaysOutfit request in flight stands
    sel_items,   \* Matching Selector input: candidate list
    sel_ref,     \* Matching Selector input: reference item
    sel_pref,    \* Matching Selector input: style preference
    sel_sec,     \* Matching Selector input: secondary reference
    sel_scored,  \* scored_items after the scoring loop and the sort
    sel_result,  \* the item the selector returned
    sty_items,   \* overall-style rule input: the chosen item of each slot
    sty_result   \* the style the rule returned

vars == <<wardrobe, outfits, day, last, pc,
          sel_items, sel_ref, sel_pref, sel_sec, sel_scored, sel_result,
          sty_items, sty_result>>

sysVars == <<wardrobe, outfits, day, last, pc>>
selVars == <<sel_items, sel_ref, sel_pref, sel_sec, sel_scored, sel_result,
             sty_items, sty_result>>

----------------------------------------------------------------------------
(* Bounds of the model. *)

MaxItems == 3      \* largest rowid of clothing_item
MaxOutfits == 2    \* rows of outfit
MaxDay == 1        \* days the clock can reach, counted from 0
MaxCands == 4      \* length of a candidate list in SpecSel
NumRequests == 2   \* getTodaysOutfit requests in flight together in SpecConc

----------------------------------------------------------------------------
(* Python values. *)

\* Python None in a string-valued column or argument.
NoneStr == "<None>"

\* No item / no response payload.
NoItem == [id |-> 0]

Min(a, b) == IF a < b THEN a ELSE b

Range(s) == {s[i] : i \in 1..Len(s)}

----------------------------------------------------------------------------
(* Compatibility rules: the class-level tables of OutfitEngine. *)

\* The neutral set without navy (a variant, not the code).
NeutralColorsNoNavy == {"white", "black", "gray", "beige", "cream", "tan"}

NEUTRAL_COLORS == {"white", "black", "gray", "beige", "cream", "tan", "navy"}

COMPLEMENTARY_PAIRS ==
    [c \in {"blue", "red", "green", "yellow", "purple", "orange", "pink",
            "navy", "brown"} |->
        CASE c = "blue"   -> {"orange", "tan", "cream"}
          [] c = "red"    -> {"green", "gray"}
          [] c = "green"  -> {"red", "pink"}
          [] c = "yellow" -> {"purple", "navy"}
          [] c = "purple" -> {"yellow", "cream"}
          [] c = "orange" -> {"blue", "navy"}
          [] c = "pink"   -> {"green", "gray"}
          [] c = "navy"   -> {"white", "cream", "tan", "orange"}
          [] c = "brown"  -> {"blue", "cream", "white"}]

STYLE_COMPATIBILITY ==
    [s \in {"casual", "formal", "sporty", "streetwear"} |->
        CASE s = "casual"     -> {"casual", "sporty", "streetwear"}
          [] s = "formal"     -> {"formal"}
          [] s = "sporty"     -> {"sporty", "casual"}
          [] s = "streetwear" -> {"streetwear", "casual", "sporty"}]

STYLE_TAGS ==
    [s \in {"casual", "formal", "sporty", "streetwear"} |->
        CASE s = "casual"     -> "Clean Casual"
          [] s = "formal"     -> "Smart Formal"
          [] s = "sporty"     -> "Active Fit"
          [] s = "streetwear" -> "Street Style"]

\* COMPLEMENTARY_PAIRS.get(ref_color, [])
ComplementaryOf(ref_color) ==
    IF ref_color \in DOMAIN COMPLEMENTARY_PAIRS
    THEN COMPLEMENTARY_PAIRS[ref_color]
    ELSE {}

\* The compatibility relation closed under symmetry (a variant, not the code).
CompatibleStylesSymmetric(ref_style) ==
    IF ref_style \in DOMAIN STYLE_COMPATIBILITY
    THEN STYLE_COMPATIBILITY[ref_style]
           \cup {s \in DOMAIN STYLE_COMPATIBILITY :
                    ref_style \in STYLE_COMPATIBILITY[s]}
    ELSE {ref_style}

\* STYLE_COMPATIBILITY.get(ref_style, [ref_style])
CompatibleStyles(ref_style) ==
    IF ref_style \in DOMAIN STYLE_COMPATIBILITY
    THEN STYLE_COMPATIBILITY[ref_style]
    ELSE {ref_style}

----------------------------------------------------------------------------
(* Safe getters of _select_matching_item. *)

\* str.lower() on the colour names the model draws: the mixed-case spellings
\* map to their lower-case form, every other name drawn is lower-case already.
LowerTable ==
    [c \in {"Navy", "WHITE", "Orange", "Red"} |->
        CASE c = "Navy"   -> "navy"
          [] c = "WHITE"  -> "white"
          [] c = "Orange" -> "orange"
          [] c = "Red"    -> "red"]

Lower(c) == IF c \in DOMAIN LowerTable THEN LowerTable[c] ELSE c

\* (item.get('primaryColor') or '').lower()
ColorOf(item) ==
    IF item.primaryColor \in {NoneStr, ""} THEN "" ELSE Lower(item.primaryColor)

\* (item.get('style') or 'casual')
StyleOf(item) ==
    IF item.style \in {NoneStr, ""} THEN "casual" ELSE item.style

----------------------------------------------------------------------------
(* Scoring of one candidate: the body of the loop of _select_matching_item. *)

\* The chain with the complementary test ahead of the two neutral tests (a
\* variant, not the code).
ColorTermComplementFirst(item_color, ref_color) ==
    IF item_color # "" /\ ref_color # ""
    THEN IF item_color \in ComplementaryOf(ref_color) THEN 4
         ELSE IF item_color \in NEUTRAL_COLORS THEN 3
         ELSE IF ref_color \in NEUTRAL_COLORS THEN 2
         ELSE IF item_color = ref_color THEN 1
         ELSE 0
    ELSE 0

\* The chain with the two neutral tests in the other order (a variant, not the code).
ColorTermRefFirst(item_color, ref_color) ==
    IF item_color # "" /\ ref_color # ""
    THEN IF ref_color \in NEUTRAL_COLORS THEN 2
         ELSE IF item_color \in NEUTRAL_COLORS THEN 3
         ELSE IF item_color \in ComplementaryOf(ref_color) THEN 4
         ELSE IF item_color = ref_color THEN 1
         ELSE 0
    ELSE 0

ColorTerm(item_color, ref_color) ==
    IF item_color # "" /\ ref_color # ""
    THEN IF item_color \in NEUTRAL_COLORS THEN 3
         ELSE IF ref_color \in NEUTRAL_COLORS THEN 2
         ELSE IF item_color \in ComplementaryOf(ref_color) THEN 4
         ELSE IF item_color = ref_color THEN 1
         ELSE 0
    ELSE 0

StyleTerm(item_style, ref_style) ==
    IF item_style \in CompatibleStyles(ref_style) THEN 2 ELSE 0

PrefTerm(item_style, style_pref) ==
    IF style_pref \notin {NoneStr, ""} /\ item_style = style_pref THEN 1 ELSE 0

WearTerm(wearCount) == IF wearCount < 3 THEN 1 ELSE 0

\* The fresh-item bonus as an elif of the low-wear test (a variant, not the code).
FreshTermExclusive(wearCount) ==
    IF ~(wearCount < 3) /\ wearCount = 0 THEN 2 ELSE 0

FreshTerm(wearCount) == IF wearCount = 0 THEN 2 ELSE 0

\* The terms added to score for one candidate, and their sum.
ScoreTerms(item, reference_item, style_pref) ==
    LET ref_color  == ColorOf(reference_item)
        ref_style  == StyleOf(reference_item)
        item_color == ColorOf(item)
        item_style == StyleOf(item)
        color == ColorTerm(item_color, ref_color)
        style == StyleTerm(item_style, ref_style)
        pref  == PrefTerm(item_style, style_pref)
        wear  == WearTerm(item.wearCount)
        fresh == FreshTerm(item.wearCount)
    IN  [item |-> item, color |-> color, style |-> style, pref |-> pref,
         wear |-> wear, fresh |-> fresh,
         score |-> color + style + pref + wear + fresh]

\* scored_items after the loop: one entry per candidate, in input order.
ScoredItems(items, reference_item, style_pref) ==
    [i \in 1..Len(items) |-> ScoreTerms(items[i], reference_item, style_pref)]

\* The sort with equal scores in reverse input order (a variant, not the
\* code).
SortedByScoreTiesReversed(scored) ==
    LET n == Len(scored)
        Rank(i) == 1 + Cardinality({j \in 1..n :
                          \/ scored[j].score > scored[i].score
                          \/ scored[j].score = scored[i].score /\ j > i})
    IN  [p \in 1..n |-> scored[CHOOSE i \in 1..n : Rank(i) = p]]

\* list.sort(key=lambda x: -x[1]): stable, descending by score.
\* Rank(i) is the position entry i takes in the sorted list.
SortedByScore(scored) ==
    LET n == Len(scored)
        Rank(i) == 1 + Cardinality({j \in 1..n :
                          \/ scored[j].score > scored[i].score
                          \/ scored[j].score = scored[i].score /\ j < i})
    IN  [p \in 1..n |-> scored[CHOOSE i \in 1..n : Rank(i) = p]]

\* scored_items[:min(3, len(scored_items))]
TopCandidates(sorted) == SubSeq(sorted, 1, Min(3, Len(sorted)))

\* A selector that falls back to the reference item (a variant, not the code).
SelectMatchingItemOrRef(items, reference_item, style_pref, secondary_ref) ==
    IF items = <<>> THEN {NoItem}
    ELSE LET top == TopCandidates(
                      SortedByScore(ScoredItems(items, reference_item, style_pref)))
         IN  {top[k].item : k \in 1..Len(top)} \cup {reference_item}

\* A selector that gives a bonus of 1 to the candidates of the secondary
\* reference's colour before the sort (a variant, not the code).
SelectMatchingItemSecondary(items, reference_item, style_pref, secondary_ref) ==
    IF items = <<>> THEN {NoItem}
    ELSE LET scored == ScoredItems(items, reference_item, style_pref)
             Bonus(e) == IF secondary_ref # NoItem
                            /\ ColorOf(e.item) = ColorOf(secondary_ref)
                         THEN 1 ELSE 0
             boosted == [i \in 1..Len(scored) |->
                            [scored[i] EXCEPT !.score = @ + Bonus(scored[i])]]
             top == TopCandidates(SortedByScore(boosted))
         IN  {top[k].item : k \in 1..Len(top)}

\* _select_matching_item: the set of items random.choice can return.
SelectMatchingItem(items, reference_item, style_pref, secondary_ref) ==
    IF items = <<>> THEN {NoItem}
    ELSE LET top == TopCandidates(
                      SortedByScore(ScoredItems(items, reference_item, style_pref)))
         IN  IF top # <<>>
             THEN {top[k].item : k \in 1..Len(top)}
             ELSE Range(items)

----------------------------------------------------------------------------
(* The Item Selector and the overall style of an outfit. *)

\* The sort by wear count descending, most worn first (a variant, not the
\* code).
SortedByWearDescending(items) ==
    LET n == Len(items)
        Rank(i) == 1 + Cardinality({j \in 1..n :
                          \/ items[j].wearCount > items[i].wearCount
                          \/ items[j].wearCount = items[i].wearCount /\ j < i})
    IN  [p \in 1..n |-> items[CHOOSE i \in 1..n : Rank(i) = p]]

\* sorted(items, key=lambda x: x.get('wearCount', 0)): stable, ascending.
SortedByWear(items) ==
    LET n == Len(items)
        Rank(i) == 1 + Cardinality({j \in 1..n :
                          \/ items[j].wearCount < items[i].wearCount
                          \/ items[j].wearCount = items[i].wearCount /\ j < i})
    IN  [p \in 1..n |-> items[CHOOSE i \in 1..n : Rank(i) = p]]

\* [i for i in items if i.get('style') == style_pref]
MatchingStyle(items, style_pref) ==
    LET F[k \in 0..Len(items)] ==
            IF k = 0 THEN <<>>
            ELSE IF items[k].style = style_pref
                 THEN Append(F[k - 1], items[k]) ELSE F[k - 1]
    IN  F[Len(items)]

\* _select_item: the set of items random.choice can return.
SelectItem(items, style_pref) ==
    IF items = <<>> THEN {NoItem}
    ELSE LET matching == MatchingStyle(items, style_pref)
             kept == IF style_pref \notin {NoneStr, ""} /\ matching # <<>>
                     THEN matching ELSE items
             items_sorted == SortedByWear(kept)
             candidates == SubSeq(items_sorted, 1, Min(3, Len(items_sorted)))
         IN  Range(candidates)

\* The slots of an outfit in the order generate_outfit fills outfit_items.
Slots == <<"top", "bottom", "shoes", "layer", "accessory">>

\* The category pool each slot is filled from.
PoolOf(slot) ==
    CASE slot = "top"       -> "tops"
      [] slot = "bottom"    -> "bottoms"
      [] slot = "shoes"     -> "shoes"
      [] slot = "layer"     -> "layers"
      [] slot = "accessory" -> "accessories"

\* The rule with a chosen item without a style counted as casual, as the
\* selectors read it (a variant, not the code).
DetermineOutfitStyleDefaulted(outfit_items) ==
    LET Chosen(k) == outfit_items[Slots[k]] # NoItem
        with == {k \in 1..Len(Slots) : Chosen(k)}
        StyleAt(k) == StyleOf(outfit_items[Slots[k]])
        Count(k) == Cardinality({m \in with : StyleAt(m) = StyleAt(k)})
        IsFirst(k) == \A m \in with : StyleAt(m) = StyleAt(k) => k <= m
    IN  IF with = {} THEN "casual"
        ELSE StyleAt(CHOOSE k \in with :
                /\ IsFirst(k)
                /\ \A m \in with : IsFirst(m) /\ m # k =>
                      \/ Count(m) < Count(k)
                      \/ Count(m) = Count(k) /\ k < m)

\* _determine_outfit_style: the styles of the chosen items that carry one, in
\* slot order; Counter(styles).most_common(1) is the style with the largest
\* count, the first one met among equals; 'casual' when there is none.
DetermineOutfitStyle(outfit_items) ==
    LET Carries(k) == /\ outfit_items[Slots[k]] # NoItem
                      /\ outfit_items[Slots[k]].style \notin {NoneStr, ""}
        with == {k \in 1..Len(Slots) : Carries(k)}
        StyleAt(k) == outfit_items[Slots[k]].style
        Count(k) == Cardinality({m \in with : StyleAt(m) = StyleAt(k)})
        IsFirst(k) == \A m \in with : StyleAt(m) = StyleAt(k) => k <= m
    IN  IF with = {} THEN "casual"
        ELSE StyleAt(CHOOSE k \in with :
                /\ IsFirst(k)
                /\ \A m \in with : IsFirst(m) /\ m # k =>
                      \/ Count(m) < Count(k)
                      \/ Count(m) = Count(k) /\ k < m)

----------------------------------------------------------------------------
(* The store: the clothing_item and outfit tables. *)

Categories == {"tops", "bottoms", "shoes", "layers", "accessories"}

MaxOf(S) == CHOOSE x \in S : \A y \in S : y <= x

\* The rowid SQLite gives a new row of an INTEGER PRIMARY KEY table: one
\* more than the largest rowid in the table.
NextItemId(items) == IF items = {} THEN 1 ELSE MaxOf({i.id : i \in items}) + 1

NextOutfitId(outs) ==
    IF outs = <<>> THEN 1 ELSE MaxOf({outs[k].id : k \in 1..Len(outs)}) + 1

\* ClothingItem.query.get(id): the row, or None.
FetchItem(items, id) ==
    IF \E i \in items : i.id = id THEN CHOOSE i \in items : i.id = id ELSE NoItem

\* A set of rows as the list a table scan returns (rowid order).
InRowOrder(rows) ==
    [p \in 1..Cardinality(rows) |->
        CHOOSE r \in rows : Cardinality({q \in rows : q.id < r.id}) = p - 1]

\* _get_items_by_category: a key for each category that has a row, no key
\* for the others.
GetItemsByCategory(items) ==
    [c \in {i.category : i \in items} |->
        InRowOrder({i \in items : i.category = c})]

\* items_by_category.get(c): None (falsy, here the empty list) when missing.
Get(by_category, c) ==
    IF c \in DOMAIN by_category THEN by_category[c] ELSE <<>>

\* The minimum test with and in place of or (a variant, not the code).
HasMinimumEither(by_category) ==
    ~(Get(by_category, "tops") = <<>> /\ Get(by_category, "bottoms") = <<>>)

\* The minimum test asking for a shoes item too (a variant, not the code).
HasMinimumNeedsShoes(by_category) ==
    ~(Get(by_category, "tops") = <<>> \/ Get(by_category, "bottoms") = <<>>
        \/ Get(by_category, "shoes") = <<>>)

\* not (not get('tops') or not get('bottoms'))
HasMinimum(by_category) ==
    ~(Get(by_category, "tops") = <<>> \/ Get(by_category, "bottoms") = <<>>)

NoItems == [s \in Range(Slots) |-> NoItem]

\* The row with the bottom read under a key outfit_items never has (a variant, not the code).
OutfitRowWrongKey(outfit_items, overall_style) ==
    [style_tag    |-> IF overall_style \in DOMAIN STYLE_TAGS
                      THEN STYLE_TAGS[overall_style] ELSE "Clean Casual",
     top_id       |-> outfit_items["top"].id,
     bottom_id    |-> 0,
     layer_id     |-> outfit_items["layer"].id,
     shoes_id     |-> outfit_items["shoes"].id,
     accessory_id |-> outfit_items["accessory"].id]

\* The row with the layer and shoes arguments exchanged (a variant, not the code).
OutfitRowSwapped(outfit_items, overall_style) ==
    [style_tag    |-> IF overall_style \in DOMAIN STYLE_TAGS
                      THEN STYLE_TAGS[overall_style] ELSE "Clean Casual",
     top_id       |-> outfit_items["top"].id,
     bottom_id    |-> outfit_items["bottom"].id,
     layer_id     |-> outfit_items["shoes"].id,
     shoes_id     |-> outfit_items["layer"].id,
     accessory_id |-> outfit_items["accessory"].id]

\* self.Outfit(...): the columns generate_outfit sets; an id of 0 is NULL.
\* name and description are not modelled, is_liked and is_saved stay False.
OutfitRow(outfit_items, overall_style) ==
    [style_tag    |-> IF overall_style \in DOMAIN STYLE_TAGS
                      THEN STYLE_TAGS[overall_style] ELSE "Clean Casual",
     top_id       |-> outfit_items["top"].id,
     bottom_id    |-> outfit_items["bottom"].id,
     layer_id     |-> outfit_items["layer"].id,
     shoes_id     |-> outfit_items["shoes"].id,
     accessory_id |-> outfit_items["accessory"].id]

\* The id column of a slot.
SlotId(outfit, slot) ==
    CASE slot = "top"       -> outfit.top_id
      [] slot = "bottom"    -> outfit.bottom_id
      [] slot = "shoes"     -> outfit.shoes_id
      [] slot = "layer"     -> outfit.layer_id
      [] slot = "accessory" -> outfit.accessory_id

\* session.add without the commit: the row is lost (a variant, not the code).
PersistNoCommit(outs, row, now) == outs

\* db.session.add(outfit); db.session.commit(): the store assigns the id and
\* created_at (default utcnow).
Persist(outs, row, now) ==
    Append(outs, [id |-> NextOutfitId(outs), created_at |-> now,
                  style_tag |-> row.style_tag,
                  top_id |-> row.top_id, bottom_id |-> row.bottom_id,
                  layer_id |-> row.layer_id, shoes_id |-> row.shoes_id,
                  accessory_id |-> row.accessory_id])

\* The lookup with the current instant in place of the start of the day: no
\* stored row is as recent (a variant, not the code).
FindTodaysOutfitNoTruncate(outs, today) == 0

\* The lookup without the filter on created_at: the first row of the table,
\* whichever day it is of (a variant, not the code).
FindTodaysOutfitAnyDay(outs, today) == IF outs = <<>> THEN 0 ELSE 1

\* Outfit.query.filter(created_at >= start of today).first(): the position
\* of the first row of the scan that matches, 0 when none does.
FindTodaysOutfit(outs, today) ==
    LET hits == {k \in 1..Len(outs) : outs[k].created_at >= today}
    IN  IF hits = {} THEN 0 ELSE CHOOSE k \in hits : \A m \in hits : k <= m

\* _outfit_to_response(outfit) with items None: each slot whose id is set
\* and whose row still exists carries the row as it is now.
LoadItems(outfit, items) ==
    [s \in Range(Slots) |->
        IF SlotId(outfit, s) # 0 THEN FetchItem(items, SlotId(outfit, s))
        ELSE NoItem]

----------------------------------------------------------------------------
(* Requests. *)

\* What the model keeps of an outfit request: the route, the response (id is
\* the outfit id of the response body, 0 when it has none; items is its
\* 'items' object, a slot without a key holding NoItem) and whether the
\* outfit request served before it on the same day was to the same route and
\* returned an outfit.
Response(op, status, id, items) ==
    [op |-> op, status |-> status, id |-> id, items |-> items,
     again |-> last.op = op /\ last.status = "ok"]

NoRequest ==
    [op |-> "none", status |-> "ok", id |-> 0, items |-> NoItems,
     again |-> FALSE]

\* Shoes included on a coin flip, as the layer is (a variant, not the code).
ShoesChoicesOptional(by_category, top, bottom, style_pref) ==
    IF Get(by_category, "shoes") # <<>>
    THEN SelectMatchingItem(by_category["shoes"], top, style_pref, bottom)
            \cup {NoItem}
    ELSE {NoItem}

\* The inclusion tests and picks of the optional slots.
ShoesChoices(by_category, top, bottom, style_pref) ==
    IF Get(by_category, "shoes") # <<>>
    THEN SelectMatchingItem(by_category["shoes"], top, style_pref, bottom)
    ELSE {NoItem}

\* random.random() > 0.5 may go either way.
LayerChoices(by_category, top, style_pref) ==
    IF Get(by_category, "layers") # <<>>
    THEN SelectMatchingItem(by_category["layers"], top, style_pref, NoItem)
            \cup {NoItem}
    ELSE {NoItem}

\* random.random() > 0.7 may go either way; random.choice over the pool.
AccessoryChoices(by_category) ==
    IF Get(by_category, "accessories") # <<>>
    THEN Range(by_category["accessories"]) \cup {NoItem}
    ELSE {NoItem}

\* OutfitEngine.generate_outfit(style_pref), called for request op.
RunGenerateOutfit(op, style_pref) ==
    LET by_category == GetItemsByCategory(wardrobe)
    IN  IF ~HasMinimum(by_category)
        THEN /\ last' = Response(op, "insufficient", 0, NoItems)
             /\ UNCHANGED outfits
        ELSE IF "tops" \notin DOMAIN by_category
                  \/ "bottoms" \notin DOMAIN by_category
        THEN \* items_by_category['tops'] / ['bottoms'] raises KeyError
             /\ last' = Response(op, "error", 0, NoItems)
             /\ UNCHANGED outfits
        ELSE /\ Len(outfits) < MaxOutfits
             /\ \E top \in SelectItem(by_category["tops"], style_pref) :
                \E bottom \in SelectMatchingItem(by_category["bottoms"], top,
                                                 style_pref, NoItem) :
                \E shoes \in ShoesChoices(by_category, top, bottom, style_pref) :
                \E layer \in LayerChoices(by_category, top, style_pref) :
                \E accessory \in AccessoryChoices(by_category) :
                  LET outfit_items ==
                          [s \in Range(Slots) |->
                              CASE s = "top"       -> top
                                [] s = "bottom"    -> bottom
                                [] s = "shoes"     -> shoes
                                [] s = "layer"     -> layer
                                [] s = "accessory" -> accessory]
                      row == OutfitRow(outfit_items,
                                       DetermineOutfitStyle(outfit_items))
                  IN  /\ outfits' = Persist(outfits, row, day)
                      /\ last' = Response(op, "ok", NextOutfitId(outfits),
                                          outfit_items)

\* POST /api/outfit/generate with an optional style.
GenerateOutfit ==
    /\ \E style_pref \in {NoneStr, "formal"} :
          RunGenerateOutfit("generate", style_pref)
    /\ UNCHANGED <<wardrobe, day, pc>>
    /\ UNCHANGED selVars

\* GET /api/outfit/today: generate_daily_outfit.
GetTodaysOutfit ==
    /\ LET k == FindTodaysOutfit(outfits, day)
       IN  IF k # 0
           THEN /\ last' = Response("today", "ok", outfits[k].id,
                                    LoadItems(outfits[k], wardrobe))
                /\ UNCHANGED outfits
           ELSE RunGenerateOutfit("today", NoneStr)
    /\ UNCHANGED <<wardrobe, day, pc>>
    /\ UNCHANGED selVars

\* Colour and style of the items the model adds.
ItemLooks == {<<"navy", "formal">>, <<"red", NoneStr>>}

\* POST /api/wardrobe: a new row, wear_count at its default 0. The model
\* adds items while the new rowid stays within MaxItems and the outfit table
\* is empty.
AddClothingItem ==
    /\ NextItemId(wardrobe) <= MaxItems
    /\ outfits = <<>>
    /\ \E category \in Categories, look \in ItemLooks :
          wardrobe' = wardrobe \cup
              {[id |-> NextItemId(wardrobe), category |-> category,
                primaryColor |-> look[1], style |-> look[2], wearCount |-> 0]}
    /\ UNCHANGED <<outfits, day, last, pc>>
    /\ UNCHANGED selVars

\* DELETE /api/wardrobe/<id>: get_or_404, then the row is deleted.
DeleteClothingItem ==
    /\ \E item \in wardrobe : wardrobe' = wardrobe \ {item}
    /\ UNCHANGED <<outfits, day, last, pc>>
    /\ UNCHANGED selVars

\* The clock passes midnight (UTC).
NextDay ==
    /\ day < MaxDay
    /\ day' = day + 1
    /\ last' = NoRequest
    /\ UNCHANGED <<wardrobe, outfits, pc>>
    /\ UNCHANGED selVars

\* The variables of the overall-style rule while no call of it runs.
StyIdle ==
    /\ sty_items = NoItems
    /\ sty_result = NoneStr

\* The selector variables while no call of the selector specifications runs.
SelIdle ==
    /\ sel_items = <<>>
    /\ sel_ref = NoItem
    /\ sel_pref = NoneStr
    /\ sel_sec = NoItem
    /\ sel_scored = <<>>
    /\ sel_result = NoItem
    /\ StyIdle

\* The store after db.create_all() on a new database, no request served.
SysIdle ==
    /\ wardrobe = {}
    /\ outfits = <<>>
    /\ day = 0
    /\ last = NoRequest
    /\ pc = [r \in 1..NumRequests |-> "idle"]

Init == SysIdle /\ SelIdle

Next ==
    \/ GenerateOutfit
    \/ GetTodaysOutfit
    \/ AddClothingItem
    \/ DeleteClothingItem
    \/ NextDay

Spec == Init /\ [][Next]_vars

----------------------------------------------------------------------------
(* getTodaysOutfit requests served together: generate_daily_outfit takes   *)
(* no lock, so between the lookup of one request and its generation the    *)
(* steps of another request may run.                                       *)

\* Request r runs the lookup of generate_daily_outfit: a stored outfit of the
\* day is returned at once; otherwise the request goes on to generate.
TodayLookup(r) ==
    /\ pc[r] = "idle"
    /\ LET k == FindTodaysOutfit(outfits, day)
       IN  IF k # 0
           THEN /\ last' = Response("today", "ok", outfits[k].id,
                                    LoadItems(outfits[k], wardrobe))
                /\ UNCHANGED pc
           ELSE /\ pc' = [pc EXCEPT ![r] = "missed"]
                /\ UNCHANGED last
    /\ UNCHANGED <<wardrobe, outfits, day>>
    /\ UNCHANGED selVars

\* Request r, having found no outfit of the day, runs generate_outfit().
TodayGenerate(r) ==
    /\ pc[r] = "missed"
    /\ RunGenerateOutfit("today", NoneStr)
    /\ pc' = [pc EXCEPT ![r] = "idle"]
    /\ UNCHANGED <<wardrobe, day>>
    /\ UNCHANGED selVars

NextConc ==
    \/ \E r \in 1..NumRequests : TodayLookup(r)
    \/ \E r \in 1..NumRequests : TodayGenerate(r)
    \/ AddClothingItem

SpecConc == Init /\ [][NextConc]_vars

----------------------------------------------------------------------------
(* The Matching Selector on its own: inputs drawn by Init, one call.       *)

\* Colours drawn for one candidate and the reference: every colour of the
\* two tables, a colour of neither, mixed-case spellings, '' and None.
ScoreColors ==
    NEUTRAL_COLORS \cup DOMAIN COMPLEMENTARY_PAIRS
        \cup {"teal", "Navy", "WHITE", "", NoneStr}

\* Styles drawn: the four known ones, an unknown one, '' and None.
ScoreStyles == DOMAIN STYLE_COMPATIBILITY \cup {"vintage", "", NoneStr}

ScoreWear == {0, 2, 3, 5}

ScorePrefs == {NoneStr, "", "casual", "formal"}

Candidate(i, color, style, wear) ==
    [id |-> i, category |-> "bottoms", primaryColor |-> color,
     style |-> style, wearCount |-> wear]

Reference(color, style) ==
    [id |-> 100, category |-> "tops", primaryColor |-> color,
     style |-> style, wearCount |-> 0]

InitScore ==
    /\ SysIdle
    /\ \E c \in ScoreColors, s \in ScoreStyles, w \in ScoreWear :
          sel_items = <<Candidate(1, c, s, w)>>
    /\ \E c \in ScoreColors, s \in ScoreStyles : sel_ref = Reference(c, s)
    /\ sel_pref \in ScorePrefs
    /\ sel_sec = NoItem
    /\ sel_scored = <<>>
    /\ sel_result = NoItem
    /\ StyIdle

\* Attributes drawn for the candidates of a list.
SelColors == {"white", "red"}
SelStyles == {"casual", "formal"}
SelWear == {0, 5}
SelRefs ==
    {Reference(c, s) : c \in {"blue", "navy", NoneStr}, s \in {"formal", NoneStr}}
SelPrefs == {NoneStr, "formal"}

\* Candidate lists of length n; the candidate at position i has id i.
CandidateLists(n) ==
    {[i \in 1..n |-> Candidate(i, f[i][1], f[i][2], f[i][3])] :
        f \in [1..n -> SelColors \X SelStyles \X SelWear]}

InitSel ==
    /\ SysIdle
    /\ \E n \in 1..MaxCands : sel_items \in CandidateLists(n)
    /\ sel_ref \in SelRefs
    /\ sel_pref \in SelPrefs
    /\ sel_sec = NoItem
    /\ sel_scored = <<>>
    /\ sel_result = NoItem
    /\ StyIdle

\* One call _select_matching_item(sel_items, sel_ref, sel_pref, sel_sec).
CallSelectMatching ==
    /\ sel_items # <<>>
    /\ sel_scored = <<>>
    /\ sel_scored' = SortedByScore(ScoredItems(sel_items, sel_ref, sel_pref))
    /\ sel_result' \in SelectMatchingItem(sel_items, sel_ref, sel_pref, sel_sec)
    /\ UNCHANGED <<sel_items, sel_ref, sel_pref, sel_sec>>
    /\ UNCHANGED <<sty_items, sty_result>>
    /\ UNCHANGED sysVars

NextSel == CallSelectMatching

SpecScore == InitScore /\ [][NextSel]_vars

SpecSel == InitSel /\ [][NextSel]_vars

----------------------------------------------------------------------------
(* The Matching Selector called as for the shoes slot: candidates, the top *)
(* as reference and a bottom as secondary reference, or none.              *)

\* Secondary references drawn: none and bottoms of two colours.
SecRefs ==
    {NoItem} \cup
    {[id |-> 101, category |-> "bottoms", primaryColor |-> c,
      style |-> "casual", wearCount |-> 0] : c \in {"white", "red"}}

\* Candidate lists of length n of the shoes call: colours and wear counts
\* vary, the style is casual.
SecLists(n) ==
    {[i \in 1..n |->
         [id |-> i, category |-> "shoes", primaryColor |-> f[i][1],
          style |-> "casual", wearCount |-> f[i][2]]] :
        f \in [1..n -> SelColors \X SelWear]}

InitSec ==
    /\ SysIdle
    /\ \E n \in 1..MaxCands : sel_items \in SecLists(n)
    /\ sel_ref \in {Reference("blue", "formal"), Reference("navy", NoneStr)}
    /\ sel_pref \in SelPrefs
    /\ sel_sec \in SecRefs
    /\ sel_scored = <<>>
    /\ sel_result = NoItem
    /\ StyIdle

SpecSec == InitSec /\ [][NextSel]_vars

----------------------------------------------------------------------------
(* The overall-style rule on its own: chosen items drawn by Init, one call. *)

\* Styles drawn for a chosen item: None, '' and three styles.
StyStyles == {NoneStr, "", "casual", "formal", "sporty"}

\* The items a slot may hold: one per style, of the slot's category.
StyItems(slot) ==
    {[id |-> 1, category |-> PoolOf(slot), primaryColor |-> "white",
      style |-> st, wearCount |-> 0] : st \in StyStyles}

\* outfit_items as generate_outfit builds it: top and bottom chosen, each of
\* shoes, layer and accessory chosen or not.
InitStyle ==
    /\ SysIdle
    /\ sel_items = <<>>
    /\ sel_ref = NoItem
    /\ sel_pref = NoneStr
    /\ sel_sec = NoItem
    /\ sel_scored = <<>>
    /\ sel_result = NoItem
    /\ sty_items \in
          {f \in [Range(Slots) -> UNION {StyItems(s) : s \in Range(Slots)}
                                    \cup {NoItem}] :
              /\ f["top"] # NoItem
              /\ f["bottom"] # NoItem
              /\ \A s \in Range(Slots) :
                    f[s] # NoItem => f[s].category = PoolOf(s)}
    /\ sty_result = NoneStr

\* One call _determine_outfit_style(sty_items).
CallDetermineStyle ==
    /\ sty_result = NoneStr
    /\ sty_result' = DetermineOutfitStyle(sty_items)
    /\ UNCHANGED sty_items
    /\ UNCHANGED <<sel_items, sel_ref, sel_pref, sel_sec, sel_scored, sel_result>>
    /\ UNCHANGED sysVars

NextStyle == CallDetermineStyle

SpecStyle == InitStyle /\ [][NextStyle]_vars

----------------------------------------------------------------------------
(* The Item Selector on its own: inputs drawn by Init, one call.           *)

ItemStyles == {"casual", "formal"}
ItemWear == {0, 2, 5}

\* Preferences drawn: none, '', one some candidates may carry and one no
\* candidate carries.
ItemPrefs == {NoneStr, "", "formal", "sporty"}

\* Candidate lists of length n of the Item Selector (tops).
ItemLists(n) ==
    {[i \in 1..n |->
         [id |-> i, category |-> "tops", primaryColor |-> "white",
          style |-> f[i][1], wearCount |-> f[i][2]]] :
        f \in [1..n -> ItemStyles \X ItemWear]}

InitItem ==
    /\ SysIdle
    /\ \E n \in 1..MaxCands : sel_items \in ItemLists(n)
    /\ sel_ref = NoItem
    /\ sel_pref \in ItemPrefs
    /\ sel_sec = NoItem
    /\ sel_scored = <<>>
    /\ sel_result = NoItem
    /\ StyIdle

\* One call _select_item(sel_items, sel_pref).
CallSelectItem ==
    /\ sel_items # <<>>
    /\ sel_result = NoItem
    /\ sel_result' \in SelectItem(sel_items, sel_pref)
    /\ UNCHANGED <<sel_items, sel_ref, sel_pref, sel_sec, sel_scored>>
    /\ UNCHANGED <<sty_items, sty_result>>
    /\ UNCHANGED sysVars

NextItem == CallSelectItem

SpecItem == InitItem /\ [][NextItem]_vars

----------------------------------------------------------------------------
(* Properties of the outfit requests. *)

\* C1: on one calendar day, once a getTodaysOutfit request has returned an
\* outfit and no generateOutfit request came since, a getTodaysOutfit request
\* returns the same outfit id and stores no new row; and a getTodaysOutfit
\* request stores a row only on a day that has none, so it creates at most
\* one row per day.
C1_DailyOutfitReused ==
    [][GetTodaysOutfit =>
          /\ last.op = "today" /\ last.status = "ok" =>
                /\ last'.status = "ok"
                /\ last'.id = last.id
                /\ outfits' = outfits
          /\ Len(outfits') > Len(outfits) =>
                \A k \in 1..Len(outfits) : outfits[k].created_at # day]_vars

\* Two getTodaysOutfit requests in a row returned an outfit on the same day.
C1_Witness ==
    /\ last.op = "today"
    /\ last.status = "ok"
    /\ last.again
    /\ \E k \in 1..Len(outfits) :
          outfits[k].id = last.id /\ outfits[k].created_at = day

\* C2: with a tops item and a bottoms item in the wardrobe, a generateOutfit
\* request stores exactly one new row under an id no stored row has, whatever
\* rows of the same day exist; two such requests in a row return different
\* ids, both stored.
C2_GenerateAlwaysNewRecord ==
    [][GenerateOutfit
          /\ (\E i \in wardrobe : i.category = "tops")
          /\ (\E i \in wardrobe : i.category = "bottoms")
       => /\ last'.status = "ok"
          /\ Len(outfits') = Len(outfits) + 1
          /\ outfits'[Len(outfits')].id = last'.id
          /\ \A k \in 1..Len(outfits) :
                outfits'[k] = outfits[k] /\ outfits[k].id # last'.id
          /\ last.op = "generate" /\ last.status = "ok" =>
                /\ last'.id # last.id
                /\ \E k \in 1..Len(outfits') : outfits'[k].id = last.id]_vars

\* Two generateOutfit requests in a row stored two rows on the same day.
C2_Witness ==
    /\ last.op = "generate"
    /\ last.status = "ok"
    /\ last.again
    /\ Len(outfits) = 2
    /\ outfits[1].created_at = outfits[2].created_at
    /\ outfits[2].id = last.id

\* C3: when the wardrobe has no tops item or no bottoms item, a
\* generateOutfit request and a getTodaysOutfit request that finds no outfit
\* of the day return the insufficient-wardrobe failure and leave the outfit
\* table unchanged.
C3_InsufficientWardrobe ==
    [][/\ \/ GenerateOutfit
          \/ /\ GetTodaysOutfit
             /\ \A k \in 1..Len(outfits) : outfits[k].created_at < day
       /\ \/ ~\E i \in wardrobe : i.category = "tops"
          \/ ~\E i \in wardrobe : i.category = "bottoms"
       => /\ last'.status = "insufficient"
          /\ last'.id = 0
          /\ outfits' = outfits]_vars

\* A request failed for want of a bottoms item while a tops item was there
\* and the outfit table held a row.
C3_Witness ==
    /\ last.status = "insufficient"
    /\ \E i \in wardrobe : i.category = "tops"
    /\ ~\E i \in wardrobe : i.category = "bottoms"
    /\ outfits # <<>>

\* C4: every stored outfit row has its top and its bottom slot occupied.
C4_TopAndBottomOccupied ==
    \A k \in 1..Len(outfits) :
        outfits[k].top_id # 0 /\ outfits[k].bottom_id # 0

\* Two rows are stored, one by each route, one with and one without a layer.
C4_Witness ==
    /\ Len(outfits) = 2
    /\ last.status = "ok"
    /\ \E k, m \in 1..2 : outfits[k].layer_id = 0 /\ outfits[m].layer_id # 0

\* C5: when a row is stored, every occupied slot holds the id of an item of
\* the wardrobe read by that request, and the item is of the slot's category:
\* top from tops, bottom from bottoms, shoes from shoes, layer from layers,
\* accessory from accessories.
C5_SlotsFromOwnPool ==
    [][Len(outfits') > Len(outfits) =>
          LET o == outfits'[Len(outfits')]
              From(id, category) ==
                  id # 0 => \E i \in wardrobe : i.id = id /\ i.category = category
          IN  /\ From(o.top_id, "tops")
              /\ From(o.bottom_id, "bottoms")
              /\ From(o.shoes_id, "shoes")
              /\ From(o.layer_id, "layers")
              /\ From(o.accessory_id, "accessories")]_vars

\* The row just stored has three occupied slots, one of them the layer.
C5_Witness ==
    /\ last.status = "ok"
    /\ \E k \in 1..Len(outfits) :
          /\ outfits[k].id = last.id
          /\ outfits[k].layer_id # 0
          /\ \E i \in wardrobe :
                i.id = outfits[k].layer_id /\ i.category = "layers"

\* C11: a getTodaysOutfit response that serves the stored outfit of the day
\* carries, for every slot occupied when the outfit was generated (the slot's
\* id column is set), the item generated into that slot, whatever wardrobe
\* operations came between the generation and the request.
C11_CachedResponseKeepsItems ==
    last.op = "today" /\ last.status = "ok" =>
        \A k \in 1..Len(outfits) :
            outfits[k].id = last.id =>
                \A s \in Range(Slots) :
                    SlotId(outfits[k], s) # 0 =>
                        last.items[s].id = SlotId(outfits[k], s)

\* C12: when getTodaysOutfit requests run together, the lookup and the
\* generation of each being separate steps, at most one outfit row is created
\* for a calendar day.
C12_OneOutfitPerDayUnderRace ==
    \A d \in 0..MaxDay :
        Cardinality({k \in 1..Len(outfits) : outfits[k].created_at = d}) <= 1

\* C13: only a row created at or after the start of the current day
\* satisfies the daily lookup: when every stored row is of an earlier day and
\* the wardrobe has a tops and a bottoms item, a getTodaysOutfit request
\* stores exactly one new row, created on the current day, and returns that
\* row, not a row of an earlier day.
C13_PreviousDayNotReused ==
    [][GetTodaysOutfit
          /\ (\A k \in 1..Len(outfits) : outfits[k].created_at < day)
          /\ (\E i \in wardrobe : i.category = "tops")
          /\ (\E i \in wardrobe : i.category = "bottoms")
       => /\ last'.status = "ok"
          /\ Len(outfits') = Len(outfits) + 1
          /\ outfits'[Len(outfits')].id = last'.id
          /\ outfits'[Len(outfits')].created_at = day
          /\ \A k \in 1..Len(outfits) :
                outfits'[k] = outfits[k] /\ outfits[k].id # last'.id]_vars

\* The first getTodaysOutfit request of the second day returned a row of that
\* day while a row of the first day was stored.
C13_Witness ==
    /\ day = 1
    /\ last.op = "today"
    /\ last.status = "ok"
    /\ ~last.again
    /\ Len(outfits) = 2
    /\ outfits[1].created_at = 0
    /\ outfits[2].created_at = 1
    /\ outfits[2].id = last.id

\* A request that runs generate_outfit: generateOutfit, or getTodaysOutfit on
\* a day without a stored row.
Generates ==
    \/ GenerateOutfit
    \/ /\ GetTodaysOutfit
       /\ \A k \in 1..Len(outfits) : outfits[k].created_at < day

\* C14: with a tops item and a bottoms item in the wardrobe, generate_outfit
\* does not fail whatever the shoes, layers and accessories pools hold, and
\* stores exactly one new row; a slot whose pool is missing or empty is
\* unoccupied in the row and in the response.
C14_OptionalPoolsNeverFail ==
    [][Generates
          /\ (\E i \in wardrobe : i.category = "tops")
          /\ (\E i \in wardrobe : i.category = "bottoms")
       => LET o == outfits'[Len(outfits')]
              Empty(category) == ~\E i \in wardrobe : i.category = category
          IN  /\ last'.status = "ok"
              /\ Len(outfits') = Len(outfits) + 1
              /\ \A k \in 1..Len(outfits) : outfits'[k] = outfits[k]
              /\ Empty("shoes") =>
                    o.shoes_id = 0 /\ last'.items["shoes"] = NoItem
              /\ Empty("layers") =>
                    o.layer_id = 0 /\ last'.items["layer"] = NoItem
              /\ Empty("accessories") =>
                    o.accessory_id = 0 /\ last'.items["accessory"] = NoItem]_vars

\* An outfit was generated from a wardrobe with a layers item and without
\* shoes and accessories: the layer is occupied, the other two slots are not.
C14_Witness ==
    /\ last.status = "ok"
    /\ ~\E i \in wardrobe : i.category \in {"shoes", "accessories"}
    /\ \E k \in 1..Len(outfits) :
          /\ outfits[k].id = last.id
          /\ outfits[k].shoes_id = 0
          /\ outfits[k].accessory_id = 0
          /\ outfits[k].layer_id # 0
          /\ last.items["layer"] \in wardrobe

\* C15: in every row generate_outfit stores, the shoes slot is occupied
\* exactly when the wardrobe read by the request has a shoes item.
C15_ShoesIffPool ==
    [][Len(outfits') > Len(outfits) =>
          LET o == outfits'[Len(outfits')]
          IN  /\ o.shoes_id # 0 <=> \E i \in wardrobe : i.category = "shoes"
              /\ last'.items["shoes"] # NoItem <=> o.shoes_id # 0]_vars

\* Two rows are stored, the first generated with the shoes item the wardrobe
\* had, the second after that item was deleted.
C15_Witness ==
    /\ Len(outfits) = 2
    /\ outfits[1].shoes_id # 0
    /\ outfits[2].shoes_id = 0
    /\ last.status = "ok"
    /\ last.id = outfits[2].id
    /\ ~\E i \in wardrobe : i.category = "shoes"

----------------------------------------------------------------------------
(* Properties of the Matching Selector. *)

\* The call of the selector specifications has returned.
SelDone == sel_scored # <<>>

\* C6: for every non-empty candidate list, reference item and style
\* preference, the item the Matching Selector returns is a member of the
\* input candidate list.
C6_ResultIsCandidate ==
    SelDone => \E i \in 1..Len(sel_items) : sel_result = sel_items[i]

\* A list longer than the top-3 cut was given and its last candidate returned.
C6_Witness ==
    /\ SelDone
    /\ Len(sel_items) > 3
    /\ sel_result = sel_items[Len(sel_items)]

\* C7: with both primary colours non-empty (compared in lower case) the
\* colour term is the value of the first rule that matches, in the order
\* candidate neutral 3, reference neutral 2, candidate complementary to the
\* reference 4, equal colours 1, else 0, never a sum of rules; white against
\* navy gives 3, orange against blue gives 4, an empty colour gives 0.
C7_ColorTermFirstRule ==
    SelDone =>
      LET e == sel_scored[1]
          c == e.item.primaryColor
          r == sel_ref.primaryColor
          Present(x) == x \notin {NoneStr, ""}
          lc == Lower(c)
          lr == Lower(r)
          a == lc \in NEUTRAL_COLORS
          b == lr \in NEUTRAL_COLORS
          k == lr \in DOMAIN COMPLEMENTARY_PAIRS /\ lc \in COMPLEMENTARY_PAIRS[lr]
          d == lc = lr
      IN  /\ Present(c) /\ Present(r) =>
                /\ a => e.color = 3
                /\ ~a /\ b => e.color = 2
                /\ ~a /\ ~b /\ k => e.color = 4
                /\ ~a /\ ~b /\ ~k /\ d => e.color = 1
                /\ ~a /\ ~b /\ ~k /\ ~d => e.color = 0
          /\ c = "white" /\ r = "navy" => e.color = 3
          /\ c = "WHITE" /\ r = "Navy" => e.color = 3
          /\ c = "orange" /\ r = "blue" => e.color = 4
          /\ ~Present(c) \/ ~Present(r) => e.color = 0

\* A neutral candidate was scored against a neutral reference: rules (a) and
\* (b) both match and only (a) is applied.
C7_Witness ==
    /\ SelDone
    /\ sel_scored[1].item.primaryColor = "white"
    /\ sel_ref.primaryColor = "navy"
    /\ sel_scored[1].color = 3

\* C8 as stated: a red candidate scored against a navy reference receives a
\* colour term of 3.
C8_RedAgainstNavyIsThree ==
    SelDone /\ sel_scored[1].item.primaryColor = "red"
            /\ sel_ref.primaryColor = "navy"
        => sel_scored[1].color = 3

\* C8, amended: a red candidate (not neutral) scored against a navy reference
\* (neutral) receives a colour term of 2, the reference-neutral rule.
C8_RedAgainstNavyIsTwo ==
    SelDone /\ sel_scored[1].item.primaryColor = "red"
            /\ sel_ref.primaryColor = "navy"
        => sel_scored[1].color = 2

\* A red candidate was scored against a navy reference.
C8_Witness ==
    /\ SelDone
    /\ sel_scored[1].item.primaryColor = "red"
    /\ sel_ref.primaryColor = "navy"

\* C9: the style term is 2 exactly when the candidate's style (casual when
\* absent) is in the compatibility set of the reference's style (casual when
\* absent): casual with casual, sporty, streetwear; formal with formal;
\* sporty with sporty, casual; streetwear with streetwear, casual, sporty; an
\* unrecognized reference style with itself only. Otherwise it is 0.
C9_StyleTerm ==
    SelDone =>
      LET e == sel_scored[1]
          OrCasual(x) == IF x \in {NoneStr, ""} THEN "casual" ELSE x
          cs == OrCasual(e.item.style)
          rs == OrCasual(sel_ref.style)
          compatible ==
              \/ rs = "casual" /\ cs \in {"casual", "sporty", "streetwear"}
              \/ rs = "formal" /\ cs = "formal"
              \/ rs = "sporty" /\ cs \in {"sporty", "casual"}
              \/ rs = "streetwear" /\ cs \in {"streetwear", "casual", "sporty"}
              \/ rs \notin {"casual", "formal", "sporty", "streetwear"} /\ cs = rs
      IN  /\ e.style = (IF compatible THEN 2 ELSE 0)
          /\ rs = "formal" /\ cs = "casual" => e.style = 0

\* A casual candidate was scored against a formal reference and got no style
\* term.
C9_Witness ==
    /\ SelDone
    /\ sel_ref.style = "formal"
    /\ sel_scored[1].item.style = "casual"
    /\ sel_scored[1].style = 0

\* C10: two candidates of one call that are identical except that one has
\* wearCount 0 and the other wearCount 5 get total scores that differ by
\* exactly 3 in favour of the wearCount-0 candidate.
C10_FreshOutranksWorn ==
    SelDone =>
      \A i, j \in 1..Len(sel_scored) :
        LET x == sel_scored[i]
            y == sel_scored[j]
        IN  /\ x.item.wearCount = 0
            /\ y.item.wearCount = 5
            /\ x.item.primaryColor = y.item.primaryColor
            /\ x.item.style = y.item.style
            /\ x.item.category = y.item.category
            => x.score = y.score + 3

\* A call scored a wearCount-0 candidate and its wearCount-5 twin, with a
\* style preference the twins match.
C10_Witness ==
    /\ SelDone
    /\ sel_pref = "formal"
    /\ \E i, j \in 1..Len(sel_scored) :
          /\ sel_scored[i].item.wearCount = 0
          /\ sel_scored[j].item.wearCount = 5
          /\ sel_scored[i].item.primaryColor = sel_scored[j].item.primaryColor
          /\ sel_scored[i].item.style = "formal"
          /\ sel_scored[j].item.style = "formal"
          /\ sel_scored[i].score > sel_scored[j].score

\* C17: the Matching Selector returns one of the first min(3, count) entries
\* of the candidates sorted by descending score, input order kept among equal
\* scores: fewer than 3 candidates have a strictly higher score than the
\* returned one, and fewer than 3 candidates are ahead of it counting also
\* the candidates of equal score earlier in the input, so a candidate tied
\* with the third-ranked one and later in the input is never returned.
C17_TopThreeStable ==
    SelDone =>
        LET n == Len(sel_items)
            ScoreOf(i) ==
                (CHOOSE e \in Range(sel_scored) : e.item = sel_items[i]).score
            r == CHOOSE i \in 1..n : sel_items[i] = sel_result
        IN  /\ Len(sel_scored) = n
            /\ \A i \in 1..n : \E e \in Range(sel_scored) : e.item = sel_items[i]
            /\ \A p \in 1..(n - 1) :
                  \/ sel_scored[p].score > sel_scored[p + 1].score
                  \/ /\ sel_scored[p].score = sel_scored[p + 1].score
                     /\ sel_scored[p].item.id < sel_scored[p + 1].item.id
            /\ \E p \in 1..Min(3, n) : sel_scored[p].item = sel_result
            /\ Cardinality({j \in 1..n : ScoreOf(j) > ScoreOf(r)}) < 3
            /\ Cardinality({j \in 1..n :
                   \/ ScoreOf(j) > ScoreOf(r)
                   \/ ScoreOf(j) = ScoreOf(r) /\ j < r}) < 3

\* Four candidates: the third of the input ranks third and is returned, the
\* fourth has the same score and ranks fourth.
C17_Witness ==
    /\ SelDone
    /\ Len(sel_items) = 4
    /\ sel_result = sel_items[3]
    /\ sel_scored[3].item = sel_items[3]
    /\ sel_scored[4].item = sel_items[4]
    /\ sel_scored[4].score = sel_scored[3].score

\* C19: the secondary reference has no effect: for the candidate list, the
\* reference and the preference of a call, the scored and sorted candidates
\* and the set of items the selector may return are the same for every value
\* of the secondary reference, none included.
C19_SecondaryRefInert ==
    SelDone =>
        \A other \in SecRefs :
            /\ SelectMatchingItem(sel_items, sel_ref, sel_pref, other)
                  = SelectMatchingItem(sel_items, sel_ref, sel_pref, sel_sec)
            /\ sel_result
                  \in SelectMatchingItem(sel_items, sel_ref, sel_pref, other)
            /\ {sel_scored[k].item : k \in 1..Min(3, Len(sel_scored))}
                  = SelectMatchingItem(sel_items, sel_ref, sel_pref, other)

\* A call with a red secondary reference and four candidates returned a white
\* candidate while a red candidate was left out of the top three.
C19_Witness ==
    /\ SelDone
    /\ sel_sec # NoItem
    /\ sel_sec.primaryColor = "red"
    /\ Len(sel_items) = 4
    /\ sel_result.primaryColor = "white"
    /\ sel_scored[4].item.primaryColor = "red"

\* C20: the colour term is 4 only when neither the candidate's nor the
\* reference's colour is neutral. Against a navy reference no candidate gets
\* 4, although the complementary table has a navy row: white, cream and tan
\* get 3 and orange gets 2. A neutral candidate listed as complementary to
\* the reference (tan or cream against blue, gray against red) gets 3.
C20_ComplementaryNeedsNonNeutral ==
    SelDone =>
      LET e == sel_scored[1]
          lc == Lower(e.item.primaryColor)
          lr == Lower(sel_ref.primaryColor)
          Neutral == {"white", "black", "gray", "beige", "cream", "tan", "navy"}
      IN  /\ e.color = 4 => lc \notin Neutral /\ lr \notin Neutral
          /\ lr = "navy" => e.color # 4
          /\ lr = "navy" /\ lc \in {"white", "cream", "tan"} => e.color = 3
          /\ lr = "navy" /\ lc = "orange" => e.color = 2
          /\ lr = "blue" /\ lc \in {"tan", "cream"} => e.color = 3
          /\ lr = "red" /\ lc = "gray" => e.color = 3

\* An orange candidate, listed in the navy row of the complementary table,
\* was scored against a reference of colour 'Navy' and got 2.
C20_Witness ==
    /\ SelDone
    /\ sel_scored[1].item.primaryColor = "orange"
    /\ sel_ref.primaryColor = "Navy"
    /\ sel_scored[1].color = 2

----------------------------------------------------------------------------
(* Properties of the Item Selector. *)

\* C16: the item the Item Selector returns for a non-empty candidate list is
\* of the narrowed set (the candidates whose style equals the preference when
\* a preference is given and some candidate matches it, all candidates
\* otherwise), and fewer than 3 items of the narrowed set have a strictly
\* smaller wear count than it.
C16_ItemSelectorLowWear ==
    sel_result # NoItem =>
        LET n == Len(sel_items)
            matching == {i \in 1..n : sel_items[i].style = sel_pref}
            narrowed == IF sel_pref \notin {NoneStr, ""} /\ matching # {}
                        THEN matching ELSE 1..n
        IN  /\ \E i \in narrowed : sel_items[i] = sel_result
            /\ Cardinality({j \in narrowed :
                   sel_items[j].wearCount < sel_result.wearCount}) < 3

\* Four candidates, three of the preferred style: the one of another style,
\* never worn, is passed over for a preferred one worn 5 times with two less
\* worn ones before it.
C16_Witness ==
    /\ Len(sel_items) = 4
    /\ sel_pref = "formal"
    /\ sel_result # NoItem
    /\ \E i \in 1..4 : sel_items[i].style = "casual" /\ sel_items[i].wearCount = 0
    /\ sel_result.style = "formal"
    /\ sel_result.wearCount = 5
    /\ Cardinality({j \in 1..4 : sel_items[j].style = "formal"
                                    /\ sel_items[j].wearCount < 5}) = 2

----------------------------------------------------------------------------
(* Properties of the overall style. *)

\* C18: the overall style is the style carried by the largest number of
\* chosen items, only items with a style present being counted; among styles
\* of the same largest count it is the one met first in slot order top,
\* bottom, shoes, layer, accessory; it is casual when no chosen item carries
\* a style.
C18_OverallStyle ==
    sty_result # NoneStr =>
        LET Carries(k) == /\ sty_items[Slots[k]] # NoItem
                          /\ sty_items[Slots[k]].style \notin {NoneStr, ""}
            carried == {k \in 1..5 : Carries(k)}
            N(t) == Cardinality({k \in carried : sty_items[Slots[k]].style = t})
            First(t) == CHOOSE k \in carried :
                            /\ sty_items[Slots[k]].style = t
                            /\ \A m \in carried :
                                  sty_items[Slots[m]].style = t => k <= m
        IN  /\ Slots = <<"top", "bottom", "shoes", "layer", "accessory">>
            /\ carried = {} => sty_result = "casual"
            /\ carried # {} =>
                  /\ \E k \in carried : sty_items[Slots[k]].style = sty_result
                  /\ \A m \in carried :
                        LET t == sty_items[Slots[m]].style
                        IN  \/ t = sty_result
                            \/ N(t) < N(sty_result)
                            \/ /\ N(t) = N(sty_result)
                               /\ First(sty_result) < First(t)

\* Every slot is chosen: a formal top, a sporty bottom, shoes without a
\* style, a formal layer and a sporty accessory. Formal and sporty tie at
\* two, and formal, met first, is returned.
C18_Witness ==
    /\ sty_result = "formal"
    /\ sty_items["top"].style = "formal"
    /\ sty_items["bottom"].style = "sporty"
    /\ sty_items["shoes"] # NoItem
    /\ sty_items["shoes"].style = NoneStr
    /\ sty_items["layer"] # NoItem
    /\ sty_items["layer"].style = "formal"
    /\ sty_items["accessory"] # NoItem
    /\ sty_items["accessory"].style = "sporty"

====
